---- MODULE Spec2Model ----
(***************************************************************************)
(* Model of rasa/core/policies/memoization.py: MemoizationPolicy, its      *)
(* AugmentedMemoizationPolicy subclass and the max_history trimmer.        *)
(*                                                                         *)
(* Python values are modelled as follows.                                  *)
(*   Text                a TLA+ string                                     *)
(*   Optional[Text]      a string, None being the string "None"            *)
(*   Optional[int]       a sequence: <<>> is None, <<n>> is the int n      *)
(*   State (a dict)      a function from a subset of FieldOrder to JSON    *)
(*                       values [t |-> "str" | "num", v |-> <text>]        *)
(*   a JSON text         the sequence of its tokens                        *)
(*   Dict[Text, Text]    a function whose domain is a set of keys          *)
(*   a float             an integer number of hundredths (1.0 is 100)      *)
(***************************************************************************)
EXTENDS Integers, Sequences, FiniteSets, TLC

VARIABLES
    self_lookup,            \* self.lookup of the policy
    pc,                     \* position of the training pass
    training_trackers,      \* argument of train()
    examples,               \* zip(trackers_as_states, trackers_as_actions)
    idx,                    \* position of the for loop in examples
    lookup,                 \* the local dict of _create_lookup_from_states
    ambiguous_feature_keys, \* the local set of _create_lookup_from_states
    raised,                 \* exception that ended the last pass, or "none"
    passes,                 \* number of training passes started
    prior_lookup,           \* self.lookup when the current pass started
    recalled,               \* last call of MemoizationPolicy.recall
    tracker,                \* applied events of the tracker of a prediction
    max_history,            \* self.max_history
    trimmed,                \* result of _trim_tracker_by_max_history
    rpc,                    \* position of a prediction
    augmented,              \* TRUE for AugmentedMemoizationPolicy
    use_nlu_confidence,     \* USE_NLU_CONFIDENCE_AS_SCORE
    confidence,             \* tracker.latest_message.intent.get("confidence")
    old_states,             \* old_states of _recall_using_truncation
    truncated_tracker,      \* truncated_tracker of _recall_using_truncation
    predicted,              \* predicted_action_name
    result,                 \* probabilities returned by the prediction
    base_states,            \* states passed to recall()
    iterations,             \* iterations of the while loop so far
    lookups                 \* table lookups made by the truncation search

vars == <<self_lookup, pc, training_trackers, examples, idx, lookup,
          ambiguous_feature_keys, raised, passes, prior_lookup, recalled,
          tracker, max_history, trimmed, rpc, augmented, use_nlu_confidence,
          confidence, old_states, truncated_tracker, predicted, result,
          base_states, iterations, lookups>>

trainVars == <<pc, training_trackers, examples, idx, lookup,
               ambiguous_feature_keys, raised, passes, prior_lookup>>

predictVars == <<tracker, max_history, trimmed, rpc, augmented,
                 use_nlu_confidence, confidence, old_states,
                 truncated_tracker, predicted, result, base_states,
                 iterations, lookups>>

(***************************************************************************)
(* Bounds of the model.                                                    *)
(***************************************************************************)
MaxExamples == 3
MaxTrackers == 2
MaxPasses == 1
MaxEvents == 4
MaxTrackerEvents == 3
MaxHistoryBound == 2

None == "None"
EmptyDict == <<>>

(***************************************************************************)
(* JSON values, states and windows.                                        *)
(***************************************************************************)
Str(s) == [t |-> "str", v |-> s]
Num(s) == [t |-> "num", v |-> s]

\* sort_keys=True: the fields of a state in lexicographic order
FieldOrder == <<"prev_action", "slots">>

Quote == "\""

\* json.dumps of a leaf: a string is quoted, a number is not
DumpValue(v) == IF v.t = "str" THEN <<Quote, v.v, Quote>> ELSE <<v.v>>

RECURSIVE DumpItems(_, _, _)
\* the "key": value items of one state from field i on, comma separated
DumpItems(state, i, first) ==
    IF i > Len(FieldOrder) THEN <<>>
    ELSE IF FieldOrder[i] \in DOMAIN state
         THEN (IF first THEN <<>> ELSE <<", ">>)
              \o <<Quote, FieldOrder[i], Quote, ": ">>
              \o DumpValue(state[FieldOrder[i]])
              \o DumpItems(state, i + 1, FALSE)
         ELSE DumpItems(state, i + 1, first)

DumpState(state) == <<"{">> \o DumpItems(state, 1, TRUE) \o <<"}">>

RECURSIVE DumpStates(_, _)
DumpStates(states, i) ==
    IF i > Len(states) THEN <<>>
    ELSE (IF i = 1 THEN <<>> ELSE <<", ">>)
         \o DumpState(states[i]) \o DumpStates(states, i + 1)

\* json.dumps(states, sort_keys=True)
json_dumps(states) == <<"[">> \o DumpStates(states, 1) \o <<"]">>

\* str.replace('"', "")
RemoveQuotes(text) == SelectSeq(text, LAMBDA c : c # Quote)

\* base64.b64encode(zlib.compress(bytes)): an injective re-encoding
Compress(text) == <<"zlib+base64">> \o text

ENABLE_FEATURE_STRING_COMPRESSION == TRUE

create_feature_key(states) ==
    LET feature_str == RemoveQuotes(json_dumps(states))
    IN  IF ENABLE_FEATURE_STRING_COMPRESSION
        THEN Compress(feature_str)
        ELSE feature_str

\* Python truth value of a str
Falsy(text) == Len(text) = 0

(***************************************************************************)
(* Inputs of training.                                                     *)
(***************************************************************************)
SeqsUpTo(S, n) == UNION {[1..k -> S] : k \in 0..n}

Actions == {"a", "b"}

\* the windows given to the table builder and to recall
Windows == { <<>>,
             <<("slots" :> Str("1"))>>,
             <<("slots" :> Num("1"))>> }

\* the rows of trackers_as_actions: lists of length 0, 1 and 2
ActionLists == { <<>>, <<"a">>, <<"b">>, <<"a", "b">> }

Examples == [states : Windows, actions : ActionLists]

\* a TrackerWithCachedStates: its cached example and its is_augmented
\* attribute ("unset" when the object has no such attribute)
Trackers == [states : Windows, actions : ActionLists,
             is_augmented : {"unset", "true", "false"}]

InitialLookups == { EmptyDict,
                    (create_feature_key(<<("slots" :> Str("1"))>>) :> "b") }

(***************************************************************************)
(* MemoizationPolicy._create_lookup_from_states                            *)
(***************************************************************************)
DictDel(d, k) == [x \in DOMAIN d \ {k} |-> d[x]]

DictSet(d, k, v) == [x \in DOMAIN d \cup {k} |-> IF x = k THEN v ELSE d[x]]

\* create_lookup_step without the set of ambiguous keys
create_lookup_step_no_ambiguous(lk, amb, states, actions) ==
    LET action == actions[1]
        feature_key == create_feature_key(states)
    IN  IF feature_key \in DOMAIN lk /\ lk[feature_key] # action
        THEN [lookup |-> DictDel(lk, feature_key), ambiguous |-> amb]
        ELSE [lookup |-> DictSet(lk, feature_key, action), ambiguous |-> amb]

\* create_lookup_step that stores a key it does not hold even when the key
\* is in the set of ambiguous keys
create_lookup_step_readd(lk, amb, states, actions) ==
    LET action == actions[1]
        feature_key == create_feature_key(states)
    IN  IF feature_key \in DOMAIN lk
        THEN IF lk[feature_key] # action
             THEN [lookup |-> DictDel(lk, feature_key),
                   ambiguous |-> amb \cup {feature_key}]
             ELSE [lookup |-> lk, ambiguous |-> amb]
        ELSE [lookup |-> DictSet(lk, feature_key, action), ambiguous |-> amb]

\* one iteration of the for loop, for an example whose action list is not
\* empty: the new values of lookup and ambiguous_feature_keys
create_lookup_step(lk, amb, states, actions) ==
    LET action == actions[1]
        feature_key == create_feature_key(states)
    IN  IF Falsy(feature_key)
        THEN [lookup |-> lk, ambiguous |-> amb]
        ELSE IF feature_key \notin amb
        THEN IF feature_key \in DOMAIN lk
             THEN IF lk[feature_key] # action
                  THEN [lookup |-> DictDel(lk, feature_key),
                        ambiguous |-> amb \cup {feature_key}]
                  ELSE [lookup |-> lk, ambiguous |-> amb]
             ELSE [lookup |-> DictSet(lk, feature_key, action),
                   ambiguous |-> amb]
        ELSE [lookup |-> lk, ambiguous |-> amb]

\* the assert on trackers_as_actions[0]
FirstRowAsserted(exs) == Len(exs[1].actions) = 1

\* lines 121-137: the local table, the early return and the assert
BuildEnter ==
    /\ pc = "entry"
    /\ lookup' = EmptyDict
    /\ IF Len(examples) = 0
       THEN /\ pc' = "return"
            /\ UNCHANGED <<ambiguous_feature_keys, raised, idx>>
       ELSE IF ~FirstRowAsserted(examples)
       THEN /\ pc' = "idle"
            /\ raised' = "AssertionError"
            /\ UNCHANGED <<ambiguous_feature_keys, idx>>
       ELSE /\ pc' = "loop"
            /\ ambiguous_feature_keys' = {}
            /\ idx' = 1
            /\ UNCHANGED raised
    /\ UNCHANGED <<self_lookup, training_trackers, examples, passes,
                   prior_lookup, recalled>>
    /\ UNCHANGED predictVars

\* lines 138-156: one iteration of the loop, and the return after the last
BuildStep ==
    /\ pc = "loop"
    /\ LET ex == examples[idx]
       IN  IF Len(ex.actions) = 0
           THEN /\ pc' = "idle"
                /\ raised' = "IndexError"
                /\ UNCHANGED <<lookup, ambiguous_feature_keys, idx>>
           ELSE LET new == create_lookup_step(lookup, ambiguous_feature_keys,
                                              ex.states, ex.actions)
                IN  /\ lookup' = new.lookup
                    /\ ambiguous_feature_keys' = new.ambiguous
                    /\ idx' = idx + 1
                    /\ pc' = IF idx = Len(examples) THEN "return" ELSE "loop"
                    /\ UNCHANGED raised
    /\ UNCHANGED <<self_lookup, training_trackers, examples, passes,
                   prior_lookup, recalled>>
    /\ UNCHANGED predictVars

(***************************************************************************)
(* The table builder on its own: every example sequence up to MaxExamples. *)
(***************************************************************************)
NoPrediction ==
    /\ tracker = <<>>
    /\ max_history = <<>>
    /\ trimmed = <<>>
    /\ rpc = "idle"
    /\ augmented = FALSE
    /\ use_nlu_confidence = FALSE
    /\ confidence = <<>>
    /\ old_states = <<>>
    /\ truncated_tracker = <<>>
    /\ predicted = None
    /\ result = <<>>
    /\ base_states = <<>>
    /\ iterations = 0
    /\ lookups = 0

\* recalled: the window and the answer of the last recall, the number of
\* training passes started before it, and whether the table it read had been
\* installed by the last of them
NotRecalled ==
    [called |-> FALSE, states |-> <<>>, action |-> None, pass |-> 0,
     trained |-> FALSE]

InitBuild ==
    /\ examples \in SeqsUpTo(Examples, MaxExamples)
    /\ pc = "entry"
    /\ self_lookup = EmptyDict
    /\ training_trackers = <<>>
    /\ idx = 0
    /\ lookup = EmptyDict
    /\ ambiguous_feature_keys = {}
    /\ raised = "none"
    /\ passes = 0
    /\ prior_lookup = EmptyDict
    /\ recalled = NotRecalled
    /\ NoPrediction

NextBuild == BuildEnter \/ BuildStep

SpecBuild == InitBuild /\ [][NextBuild]_vars

(***************************************************************************)
(* MemoizationPolicy.train and MemoizationPolicy.recall                    *)
(***************************************************************************)
\* the filter that lets every tracker through
IsOriginal_always(t) == TRUE

\* the filter of train(): only original trackers, no augmented ones
IsOriginal(t) == t.is_augmented = "unset" \/ ~(t.is_augmented = "true")

OriginalTrackers(ts) == SelectSeq(ts, IsOriginal)

\* featurizer.training_states_and_labels: the cached example of each tracker
training_states_and_labels(ts) ==
    [i \in 1..Len(ts) |-> [states |-> ts[i].states, actions |-> ts[i].actions]]

RECURSIVE BuildFrom(_, _, _, _)
\* the for loop from position i on, when no row of actions is empty
BuildFrom(exs, i, lk, amb) ==
    IF i > Len(exs) THEN lk
    ELSE LET new == create_lookup_step(lk, amb, exs[i].states, exs[i].actions)
         IN  BuildFrom(exs, i + 1, new.lookup, new.ambiguous)

\* lines 123-139: the error _create_lookup_from_states raises, if any: the
\* assert looks at the first row, actions[0] fails on an empty row
build_raises(exs) ==
    IF Len(exs) = 0 THEN "none"
    ELSE IF ~FirstRowAsserted(exs) THEN "AssertionError"
    ELSE IF \E i \in 1..Len(exs) : Len(exs[i].actions) = 0 THEN "IndexError"
    ELSE "none"

\* the value _create_lookup_from_states returns when it raises nothing
create_lookup_from_states(exs) == BuildFrom(exs, 1, EmptyDict, {})

\* a lookup that stores the key it missed, as dict.setdefault would
table_after_setdefault(lk, feature_key) ==
    IF feature_key \in DOMAIN lk THEN lk ELSE DictSet(lk, feature_key, None)

\* line 196: what self.lookup holds after self.lookup.get(feature_key)
table_after_get(lk, feature_key) == lk

\* self.lookup.get(self._create_feature_key(states))
recall_states(lk, states) ==
    LET feature_key == create_feature_key(states)
    IN  IF feature_key \in DOMAIN lk THEN lk[feature_key] ELSE None

\* lines 181-189: filter the trackers, featurize them, call the builder
TrainStart ==
    /\ pc = "idle"
    /\ passes < MaxPasses
    /\ \E ts \in SeqsUpTo(Trackers, MaxTrackers) :
          /\ training_trackers' = ts
          /\ examples' = training_states_and_labels(OriginalTrackers(ts))
    /\ pc' = "entry"
    /\ passes' = passes + 1
    /\ raised' = "none"
    /\ prior_lookup' = self_lookup
    /\ UNCHANGED <<self_lookup, idx, lookup, ambiguous_feature_keys, recalled>>
    /\ UNCHANGED predictVars

\* BuildFinished that also holds while the loop is running
BuildFinishedOrRunning(p) == p \in {"loop", "return"}

\* the builder has returned its table
BuildFinished(p) == p = "return"

\* an assignment that keeps the entries of the old table the new one lacks
installed_table_merged(old, new) ==
    [k \in DOMAIN old \cup DOMAIN new |->
        IF k \in DOMAIN new THEN new[k] ELSE old[k]]

\* line 190: the assignment rebinds self.lookup to the returned table
installed_table(old, new) == new

\* line 190: self.lookup = <the returned table>
Install ==
    /\ BuildFinished(pc)
    /\ self_lookup' = installed_table(self_lookup, lookup)
    /\ pc' = "idle"
    /\ UNCHANGED <<training_trackers, examples, idx, lookup,
                   ambiguous_feature_keys, raised, passes, prior_lookup,
                   recalled>>
    /\ UNCHANGED predictVars

\* MemoizationPolicy.recall(states, tracker, domain), at any moment
Recall ==
    /\ \E states \in Windows :
          recalled' = [called |-> TRUE, states |-> states,
                       action |-> recall_states(self_lookup, states),
                       pass |-> passes,
                       trained |-> pc = "idle" /\ raised = "none"
                                   /\ passes > 0]
          /\ self_lookup' = table_after_get(self_lookup,
                                            create_feature_key(states))
    /\ UNCHANGED trainVars
    /\ UNCHANGED predictVars

Init ==
    /\ self_lookup \in InitialLookups
    /\ pc = "idle"
    /\ training_trackers = <<>>
    /\ examples = <<>>
    /\ idx = 0
    /\ lookup = EmptyDict
    /\ ambiguous_feature_keys = {}
    /\ raised = "none"
    /\ passes = 0
    /\ prior_lookup = EmptyDict
    /\ recalled = NotRecalled
    /\ NoPrediction

Next == TrainStart \/ BuildEnter \/ BuildStep \/ Install \/ Recall

Spec == Init /\ [][Next]_vars

(***************************************************************************)
(* Event logs: tracker.applied_events()                                    *)
(***************************************************************************)
ACTION_LISTEN_NAME == "action_listen"

ActionListen == [type |-> "ActionExecuted", name |-> ACTION_LISTEN_NAME]
ActionUtter == [type |-> "ActionExecuted", name |-> "utter_ask"]
SlotSet == [type |-> "SlotSet", name |-> "slot"]

Events == {ActionListen, ActionUtter, SlotSet}

EventLogs == SeqsUpTo(Events, MaxEvents)

\* Optional[int] values of max_history: None, 0, 1, ...
MaxHistories == {<<>>} \cup {<<n>> : n \in 0..MaxHistoryBound}

\* isinstance(event, ActionExecuted)
IsActionExecuted(event) == event.type = "ActionExecuted"

CountActions(events) == Len(SelectSeq(events, IsActionExecuted))

\* Python truth value of an Optional[int]
FalsyInt(n) == n = <<>> \/ n[1] = 0

RECURSIVE ScanReversed(_, _, _, _)
\* the loop over reversed(applied_events), at the event i from the start,
\* with num_actions counted so far; num_events is Len(events) - i + 1
ScanReversed(events, i, num_actions, n) ==
    IF i < 1 THEN <<>>
    ELSE LET event == events[i]
             actions == IF IsActionExecuted(event)
                        THEN num_actions + 1 ELSE num_actions
         IN  IF /\ IsActionExecuted(event)
                /\ actions > n
                /\ event.name = ACTION_LISTEN_NAME
             THEN <<Len(events) - i + 1>>
             ELSE ScanReversed(events, i - 1, actions, n)

RECURSIVE ScanReversedFromMaxHistory(_, _, _, _)
\* the scan that stops at an action_listen once max_history actions are
\* counted: num_actions >= max_history
ScanReversedFromMaxHistory(events, i, num_actions, n) ==
    IF i < 1 THEN <<>>
    ELSE LET event == events[i]
             actions == IF IsActionExecuted(event)
                        THEN num_actions + 1 ELSE num_actions
         IN  IF /\ IsActionExecuted(event)
                /\ actions >= n
                /\ event.name = ACTION_LISTEN_NAME
             THEN <<Len(events) - i + 1>>
             ELSE ScanReversedFromMaxHistory(events, i - 1, actions, n)

get_max_applied_events_off_by_one(events, mh) ==
    IF FalsyInt(mh) THEN <<>>
    ELSE ScanReversedFromMaxHistory(events, Len(events), 0, mh[1])

get_max_applied_events_for_max_history(events, mh) ==
    IF FalsyInt(mh) THEN <<>>
    ELSE ScanReversed(events, Len(events), 0, mh[1])

\* the applied events of the tracker that the trimmer returns
trim_tracker_by_max_history(events, mh) ==
    LET max_applied_events == get_max_applied_events_for_max_history(events, mh)
    IN  IF FalsyInt(max_applied_events) THEN events
        ELSE SubSeq(events, Len(events) - max_applied_events[1] + 1,
                    Len(events))

(***************************************************************************)
(* The trimmer on its own: every event log up to MaxEvents.                *)
(***************************************************************************)
NoTraining ==
    /\ pc = "idle"
    /\ training_trackers = <<>>
    /\ examples = <<>>
    /\ idx = 0
    /\ lookup = EmptyDict
    /\ ambiguous_feature_keys = {}
    /\ raised = "none"
    /\ passes = 0
    /\ prior_lookup = EmptyDict
    /\ recalled = NotRecalled

InitTrim ==
    /\ self_lookup = EmptyDict
    /\ NoTraining
    /\ tracker \in EventLogs
    /\ max_history \in MaxHistories
    /\ trimmed = <<>>
    /\ rpc = "call"
    /\ augmented = FALSE
    /\ use_nlu_confidence = FALSE
    /\ confidence = <<>>
    /\ old_states = <<>>
    /\ truncated_tracker = <<>>
    /\ predicted = None
    /\ result = <<>>
    /\ base_states = <<>>
    /\ iterations = 0
    /\ lookups = 0

\* _trim_tracker_by_max_history(tracker, max_history)
Trim ==
    /\ rpc = "call"
    /\ trimmed' = trim_tracker_by_max_history(tracker, max_history)
    /\ rpc' = "trimmed"
    /\ UNCHANGED <<self_lookup, recalled, tracker, max_history, augmented,
                   use_nlu_confidence, confidence, old_states,
                   truncated_tracker, predicted, result, base_states,
                   iterations, lookups>>
    /\ UNCHANGED trainVars

NextTrim == Trim

SpecTrim == InitTrim /\ [][NextTrim]_vars

(***************************************************************************)
(* The featurizer and the domain, as the policy uses them.                 *)
(***************************************************************************)
\* the state of a tracker after its first n events: the name of the last
\* executed action and the slot, if it was set
StateAfter(events, n) ==
    LET done == SubSeq(events, 1, n)
        acts == SelectSeq(done, IsActionExecuted)
        slot == \E i \in 1..n : events[i] = SlotSet
    IN  [f \in (IF Len(acts) > 0 THEN {"prev_action"} ELSE {})
               \cup (IF slot THEN {"slots"} ELSE {}) |->
            IF f = "prev_action" THEN Str(acts[Len(acts)].name)
            ELSE Num("1.0")]

RECURSIVE PastStates(_, _)
\* tracker.past_states: the state before each executed action from event i
\* on, and the current state
PastStates(events, i) ==
    IF i > Len(events) THEN <<StateAfter(events, Len(events))>>
    ELSE IF IsActionExecuted(events[i])
         THEN <<StateAfter(events, i - 1)>> \o PastStates(events, i + 1)
         ELSE PastStates(events, i + 1)

\* MaxHistoryTrackerFeaturizer.slice_state_history
slice_state_history(states, mh) ==
    IF FalsyInt(mh) \/ Len(states) <= mh[1] THEN states
    ELSE SubSeq(states, Len(states) - mh[1] + 1, Len(states))

\* self._prediction_states(tracker, domain)
prediction_states(events, mh) == slice_state_history(PastStates(events, 1), mh)

\* domain.action_names
DomainActions == <<"a", "b", "action_listen">>

\* domain.index_for_action(action_name)
index_for_action(action_name) ==
    CHOOSE i \in 1..Len(DomainActions) : DomainActions[i] = action_name

\* self._default_predictions(domain)
default_predictions == [i \in 1..Len(DomainActions) |-> 0]

(***************************************************************************)
(* MemoizationPolicy._prediction_result                                    *)
(***************************************************************************)
\* _prediction_result that takes the confidence of NLU whatever the option
prediction_result_always_nlu(action_name, use_nlu, conf) ==
    IF action_name # ""
    THEN [default_predictions EXCEPT ![index_for_action(action_name)] =
             IF conf = <<>> THEN 100 ELSE conf[1]]
    ELSE default_predictions

prediction_result(action_name, use_nlu, conf) ==
    LET score == IF use_nlu
                 THEN (IF conf = <<>> THEN 100 ELSE conf[1])
                 ELSE 100
    IN  IF action_name # ""
        THEN [default_predictions EXCEPT ![index_for_action(action_name)] = score]
        ELSE default_predictions

(***************************************************************************)
(* AugmentedMemoizationPolicy                                              *)
(***************************************************************************)
\* Optional[DialogueStateTracker]: <<>> is None, <<events>> a tracker
NoTracker == <<>>

RECURSIVE FindAction(_, _)
\* index of the first ActionExecuted at or after position i, 0 if none
FindAction(events, i) ==
    IF i > Len(events) THEN 0
    ELSE IF IsActionExecuted(events[i]) THEN i
    ELSE FindAction(events, i + 1)

\* the strip that truncates at the first action even when asked again
strip_never_again(events, again) ==
    LET idx_of_first_action == FindAction(events, 1)
    IN  IF idx_of_first_action = 0 THEN NoTracker
        ELSE <<SubSeq(events, idx_of_first_action, Len(events))>>

\* the strip that cuts one event too late: applied_events[idx_to_use + 1:]
strip_after_action(events, again) ==
    LET idx_of_first_action == FindAction(events, 1)
        idx_of_second_action ==
            IF idx_of_first_action = 0 THEN 0
            ELSE FindAction(events, idx_of_first_action + 1)
        idx_to_use == IF again THEN idx_of_second_action
                      ELSE idx_of_first_action
    IN  IF idx_to_use = 0 THEN NoTracker
        ELSE IF Len(SubSeq(events, idx_to_use + 1, Len(events))) = 0
        THEN NoTracker
        ELSE <<SubSeq(events, idx_to_use + 1, Len(events))>>

\* the strip that hands back the whole log when it finds no action
strip_keeps_log_without_action(events, again) ==
    LET idx_of_first_action == FindAction(events, 1)
        idx_of_second_action ==
            IF idx_of_first_action = 0 THEN 0
            ELSE FindAction(events, idx_of_first_action + 1)
        idx_to_use == IF again THEN idx_of_second_action
                      ELSE idx_of_first_action
    IN  IF idx_to_use = 0
        THEN (IF again THEN NoTracker ELSE <<events>>)
        ELSE <<SubSeq(events, idx_to_use, Len(events))>>

\* the strip whose scan lacks the break: the second index ends as the last
\* action after the first
strip_no_break(events, again) ==
    LET idx_of_first_action == FindAction(events, 1)
        later == {i \in 1..Len(events) :
                     i > idx_of_first_action /\ IsActionExecuted(events[i])}
        idx_of_second_action ==
            IF idx_of_first_action = 0 \/ later = {} THEN 0
            ELSE CHOOSE i \in later : \A j \in later : j <= i
        idx_to_use == IF again THEN idx_of_second_action
                      ELSE idx_of_first_action
    IN  IF idx_to_use = 0 THEN NoTracker
        ELSE <<SubSeq(events, idx_to_use, Len(events))>>

strip_leading_events_until_action_executed(events, again) ==
    LET idx_of_first_action == FindAction(events, 1)
        idx_of_second_action ==
            IF idx_of_first_action = 0 THEN 0
            ELSE FindAction(events, idx_of_first_action + 1)
        idx_to_use == IF again THEN idx_of_second_action
                      ELSE idx_of_first_action
    IN  IF idx_to_use = 0 THEN NoTracker
        ELSE IF Len(SubSeq(events, idx_to_use, Len(events))) = 0 THEN NoTracker
        ELSE <<SubSeq(events, idx_to_use, Len(events))>>

\* recall that starts the truncation search whatever the base recall found
falls_back_always(aug, action_name) == aug

\* AugmentedMemoizationPolicy.recall: the base recall missed
falls_back(aug, action_name) == aug /\ action_name = None

\* line 360: old_states != states
window_is_new(old, states) == old # states

Confidences == {<<>>, <<50>>}

\* the logs that the tables of the policy were trained on: for action "a"
\* a log of one or two events that ends with an executed action, for action
\* "b" the log of a single action_listen
TrainLogs ==
    {l \in SeqsUpTo(Events, 2) : Len(l) > 0 /\ IsActionExecuted(l[Len(l)])}

TrainLogsB == {<<ActionListen>>}

\* the tables of a policy trained with max_history mh on one or two logs
RecallLookups(mh) ==
    {create_lookup_from_states(
        <<[states |-> prediction_states(l1, mh), actions |-> <<"a">>],
          [states |-> prediction_states(l2, mh), actions |-> <<"b">>]>>) :
        l1 \in TrainLogs, l2 \in TrainLogsB}

InitRecall ==
    /\ max_history \in MaxHistories
    /\ self_lookup \in RecallLookups(max_history)
    /\ augmented \in BOOLEAN
    /\ use_nlu_confidence \in BOOLEAN
    /\ NoTraining
    /\ tracker = <<>>
    /\ trimmed = <<>>
    /\ rpc = "idle"
    /\ confidence = <<>>
    /\ old_states = <<>>
    /\ truncated_tracker = NoTracker
    /\ predicted = None
    /\ result = <<>>
    /\ base_states = <<>>
    /\ iterations = 0
    /\ lookups = 0

policyVars == <<self_lookup, max_history, augmented, use_nlu_confidence,
                recalled>>

\* the policy's settings, without its table
settingVars == <<max_history, augmented, use_nlu_confidence, recalled>>

\* predict_action_probabilities, lines 247-250
PredictStart ==
    /\ rpc = "idle"
    /\ \E t \in SeqsUpTo(Events, MaxTrackerEvents), c \in Confidences :
          /\ tracker' = t
          /\ confidence' = c
          /\ base_states' = prediction_states(t, max_history)
    /\ result' = default_predictions
    /\ rpc' = "recall"
    /\ predicted' = None
    /\ trimmed' = <<>>
    /\ old_states' = <<>>
    /\ truncated_tracker' = NoTracker
    /\ iterations' = 0
    /\ lookups' = 0
    /\ UNCHANGED policyVars
    /\ UNCHANGED trainVars

\* recall(): the base recall, lines 211 and 393-398
RecallBase ==
    /\ rpc = "recall"
    /\ predicted' = recall_states(self_lookup, base_states)
    /\ rpc' = IF falls_back(augmented, predicted') THEN "truncate"
              ELSE "result"
    /\ self_lookup' = table_after_get(self_lookup,
                                      create_feature_key(base_states))
    /\ UNCHANGED <<tracker, confidence, base_states, result, trimmed,
                   old_states, truncated_tracker, iterations, lookups>>
    /\ UNCHANGED settingVars
    /\ UNCHANGED trainVars

\* _recall_using_truncation, lines 350-356
TruncateStart ==
    /\ rpc = "truncate"
    /\ trimmed' = trim_tracker_by_max_history(tracker, max_history)
    /\ truncated_tracker' =
          strip_leading_events_until_action_executed(trimmed', FALSE)
    /\ old_states' = base_states
    /\ rpc' = "loop"
    /\ UNCHANGED <<tracker, confidence, base_states, result, predicted,
                   iterations, lookups>>
    /\ UNCHANGED policyVars
    /\ UNCHANGED trainVars

\* one iteration of the while loop, lines 357-371
LoopStep ==
    /\ rpc = "loop"
    /\ truncated_tracker # NoTracker
    /\ LET states == prediction_states(truncated_tracker[1], max_history)
           memorised == recall_states(self_lookup, states)
       IN  IF window_is_new(old_states, states) /\ memorised # None
           THEN /\ predicted' = memorised
                /\ lookups' = lookups + 1
                /\ rpc' = "result"
                /\ UNCHANGED <<old_states, truncated_tracker>>
           ELSE /\ old_states' = states
                /\ lookups' = IF window_is_new(old_states, states)
                              THEN lookups + 1 ELSE lookups
                /\ truncated_tracker' =
                      strip_leading_events_until_action_executed(
                          truncated_tracker[1], TRUE)
                /\ UNCHANGED <<predicted, rpc>>
    /\ LET states == prediction_states(truncated_tracker[1], max_history)
       IN  self_lookup' = IF window_is_new(old_states, states)
                          THEN table_after_get(self_lookup,
                                               create_feature_key(states))
                          ELSE self_lookup
    /\ iterations' = iterations + 1
    /\ UNCHANGED <<tracker, confidence, base_states, result, trimmed>>
    /\ UNCHANGED settingVars
    /\ UNCHANGED trainVars

\* the loop ends without a match, lines 373-375
LoopExit ==
    /\ rpc = "loop"
    /\ truncated_tracker = NoTracker
    /\ predicted' = None
    /\ rpc' = "result"
    /\ UNCHANGED <<tracker, confidence, base_states, result, trimmed,
                   old_states, truncated_tracker, iterations, lookups>>
    /\ UNCHANGED policyVars
    /\ UNCHANGED trainVars

\* predict_action_probabilities, lines 252-258
Emit ==
    /\ rpc = "result"
    /\ result' = IF predicted # None
                 THEN prediction_result(predicted, use_nlu_confidence,
                                        confidence)
                 ELSE result
    /\ rpc' = "done"
    /\ UNCHANGED <<tracker, confidence, base_states, predicted, trimmed,
                   old_states, truncated_tracker, iterations, lookups>>
    /\ UNCHANGED policyVars
    /\ UNCHANGED trainVars

\* the prediction has been handed to the caller; the policy keeps nothing
Return ==
    /\ rpc = "done"
    /\ rpc' = "idle"
    /\ tracker' = <<>>
    /\ confidence' = <<>>
    /\ base_states' = <<>>
    /\ result' = <<>>
    /\ predicted' = None
    /\ trimmed' = <<>>
    /\ old_states' = <<>>
    /\ truncated_tracker' = NoTracker
    /\ iterations' = 0
    /\ lookups' = 0
    /\ UNCHANGED policyVars
    /\ UNCHANGED trainVars

NextRecall ==
    PredictStart \/ RecallBase \/ TruncateStart \/ LoopStep \/ LoopExit
        \/ Emit \/ Return

SpecRecall == InitRecall /\ [][NextRecall]_vars

\* a prediction that has started is run to its end
FairSpecRecall ==
    SpecRecall /\ WF_vars(RecallBase) /\ WF_vars(TruncateStart)
        /\ WF_vars(LoopStep) /\ WF_vars(LoopExit) /\ WF_vars(Emit)

(***************************************************************************)
(* Properties of the table builder.                                        *)
(***************************************************************************)
WellFormed(exs) == \A i \in 1..Len(exs) : Len(exs[i].actions) = 1

KeysOf(exs) == {create_feature_key(exs[i].states) : i \in 1..Len(exs)}

ActionsFor(exs, k) ==
    {exs[i].actions[1] :
        i \in {j \in 1..Len(exs) : create_feature_key(exs[j].states) = k}}

\* C1: when the builder returns, for examples that each carry one action,
\* the table holds exactly the keys of the examples whose examples all carry
\* the same action, and maps each of them to that action; a key seen with two
\* distinct actions is absent.
C1_TableOfUnambiguousKeys ==
    (pc = "return" /\ WellFormed(examples)) =>
        /\ DOMAIN lookup =
              {k \in KeysOf(examples) : Cardinality(ActionsFor(examples, k)) = 1}
        /\ \A k \in DOMAIN lookup : ActionsFor(examples, k) = {lookup[k]}

\* C1 witness: three examples of one key with actions a, b, a have been
\* processed and the key is absent from the returned table.
C1_Witness ==
    /\ pc = "return"
    /\ Len(examples) = 3
    /\ WellFormed(examples)
    /\ Cardinality(KeysOf(examples)) = 1
    /\ examples[1].actions # examples[2].actions
    /\ examples[3].actions = examples[1].actions
    /\ lookup = EmptyDict

\* C2: the builder never returns a table when some example, at any
\* position, has an action list whose length is not 1.
C2_MalformedExampleRejected ==
    pc = "return" => WellFormed(examples)

\* C4: the key of the empty window is never in a table that training builds
\* or installs, and a recall on the empty window always misses.
C4_EmptyWindowNeverStored ==
    /\ create_feature_key(<<>>) \notin DOMAIN lookup
    /\ create_feature_key(<<>>) \notin DOMAIN self_lookup
    /\ (recalled.called /\ recalled.states = <<>>) => recalled.action = None

\* C5: a recall on the table that the last training pass installed returns
\* an action only if one of its examples has the very same window (same
\* states, same values with the same types, same order) and that action.
C5_NoFalseMatch ==
    (recalled.called /\ recalled.trained /\ recalled.pass = passes
        /\ recalled.action # None) =>
        \E i \in 1..Len(examples) :
            /\ examples[i].states = recalled.states
            /\ examples[i].actions[1] = recalled.action

\* C9: while a training pass runs the policy's table is the previous table,
\* after the pass it is the complete table of the pass (the previous one if
\* the pass raised), and a recall made since the pass started answers from
\* one of these two tables.
C9_NoPartialTable ==
    /\ pc # "idle" => self_lookup = prior_lookup
    /\ (pc = "idle" /\ passes > 0) =>
          self_lookup = IF raised = "none"
                        THEN create_lookup_from_states(examples)
                        ELSE prior_lookup
    /\ (recalled.called /\ recalled.pass = passes /\ passes > 0) =>
          recalled.action \in
              {recall_states(prior_lookup, recalled.states)} \cup
              (IF pc = "idle" /\ raised = "none"
               THEN {recall_states(create_lookup_from_states(examples),
                                   recalled.states)}
               ELSE {})

\* C9 witness: a recall was made while the builder's private table was
\* partly built and differed from the policy's table.
C9_Witness ==
    /\ pc = "loop"
    /\ idx = 2
    /\ Len(examples) = 2
    /\ lookup # EmptyDict
    /\ lookup # self_lookup
    /\ recalled.called
    /\ recalled.pass = passes
    /\ recalled.action # None

\* C15: in every state of a build the table and the set of ambiguous keys
\* are disjoint, and no step of the build takes a key out of that set; so a
\* key that entered the set is absent from the table in every later state,
\* whatever examples follow.
C15_AmbiguousKeysStayOut ==
    /\ [](DOMAIN lookup \cap ambiguous_feature_keys = {})
    /\ [][ambiguous_feature_keys \subseteq ambiguous_feature_keys']_vars

\* three examples were processed: the second made the key of the first
\* ambiguous, the third repeated that key with the action of the first
C15_Witness ==
    /\ Len(examples) = 3 /\ idx = 4 /\ raised = "none"
    /\ create_feature_key(examples[1].states) \in ambiguous_feature_keys
    /\ examples[3].states = examples[1].states
    /\ Len(examples[3].actions) > 0
    /\ examples[3].actions[1] = examples[1].actions[1]

\* a tracker without the is_augmented attribute, or with a false one
NotFlagged(t) == t.is_augmented \in {"unset", "false"}

\* C18: after a training pass that completed, the table is the table built
\* from the trackers that are not flagged as augmented alone, so no entry
\* comes only from a flagged tracker.
C18_AugmentedTrackersIgnored ==
    (pc = "idle" /\ passes > 0 /\ raised = "none") =>
        self_lookup = create_lookup_from_states(
                          training_states_and_labels(
                              SelectSeq(training_trackers, NotFlagged)))

\* a pass completed on a flagged and an unflagged tracker of different
\* keys: the table holds the key of the unflagged one only
C18_Witness ==
    /\ pc = "idle" /\ passes > 0 /\ raised = "none"
    /\ \E i, j \in 1..Len(training_trackers) :
          /\ training_trackers[i].is_augmented = "true"
          /\ Len(training_trackers[i].actions) = 1
          /\ create_feature_key(training_trackers[i].states)
                \notin DOMAIN self_lookup
          /\ training_trackers[j].is_augmented # "true"
          /\ create_feature_key(training_trackers[j].states)
                \in DOMAIN self_lookup

\* the permutations of 1..n
Perms(n) ==
    {p \in [1..n -> 1..n] : \A i, j \in 1..n : p[i] = p[j] => i = j}

Permuted(exs, p) == [i \in 1..Len(exs) |-> exs[p[i]]]

\* for examples that each carry one action the returned table is the same
\* for every permutation of them
OrderIndependentWhenWellFormed ==
    (pc = "return" /\ WellFormed(examples)) =>
        \A p \in Perms(Len(examples)) :
            create_lookup_from_states(Permuted(examples, p)) = lookup

\* the stepwise build ends as build_raises and create_lookup_from_states say
BuildOutcomeAgrees ==
    /\ pc = "return" => /\ build_raises(examples) = "none"
                        /\ lookup = create_lookup_from_states(examples)
    /\ pc = "idle" => raised = build_raises(examples)

\* C17: the build is order-independent in outcome: when it returns a table
\* for a sequence of examples, it returns that same table for every
\* permutation of the sequence.
C17_EveryOrderSameTable ==
    pc = "return" =>
        \A p \in Perms(Len(examples)) :
            /\ build_raises(Permuted(examples, p)) = "none"
            /\ create_lookup_from_states(Permuted(examples, p)) = lookup

\* C12: after a training pass that completed, the policy's table is exactly
\* the table built from that pass's examples, and every entry of it is
\* produced by one of those examples: nothing of the table held before the
\* pass survives on its own.
C12_TableReplaced ==
    (pc = "idle" /\ passes > 0 /\ raised = "none") =>
        /\ self_lookup = create_lookup_from_states(examples)
        /\ \A k \in DOMAIN self_lookup :
              \E i \in 1..Len(examples) :
                 /\ create_feature_key(examples[i].states) = k
                 /\ examples[i].actions[1] = self_lookup[k]

\* a pass completed on a policy whose earlier table held a key that the new
\* examples do not produce, and the new table is not empty
C12_Witness ==
    /\ pc = "idle" /\ passes > 0 /\ raised = "none"
    /\ self_lookup # EmptyDict
    /\ \E k \in DOMAIN prior_lookup : k \notin DOMAIN self_lookup

(***************************************************************************)
(* Properties of the trimmer.                                              *)
(***************************************************************************)
\* C3: for a positive max_history the log that the trimmer returns contains
\* at most max_history ActionExecuted events.
C3_AtMostMaxHistoryActions ==
    (rpc = "trimmed" /\ ~FalsyInt(max_history)) =>
        CountActions(trimmed) <= max_history[1]

\* C11: whenever the log has more executed actions than a positive
\* max_history, the trimmer returns a strictly shorter log.
C11_MoreTurnsThanMaxHistoryTrimmed ==
    (rpc = "trimmed" /\ ~FalsyInt(max_history)
        /\ CountActions(tracker) > max_history[1]) =>
        Len(trimmed) < Len(tracker)

\* the positions of the action_listen events of a log whose suffix holds
\* more than n executed actions
ListenStarts(events, n) ==
    {k \in 1..Len(events) :
        /\ events[k] = ActionListen
        /\ CountActions(SubSeq(events, k, Len(events))) > n}

Max(S) == CHOOSE x \in S : \A y \in S : y <= x

BaseAnswer == recall_states(self_lookup, base_states)

\* C6: the truncation search runs only when the base recall on the current
\* window missed, and when the base recall hits its action is the answer
\* and the search has made no iteration and no lookup.
C6_ExactMatchWins ==
    /\ rpc \in {"truncate", "loop"} => BaseAnswer = None
    /\ (rpc \in {"result", "done"} /\ BaseAnswer # None) =>
          /\ predicted = BaseAnswer
          /\ iterations = 0
          /\ lookups = 0

\* the windows of the suffixes of a log that begin at its executed actions
\* number i, i + 1, ..., in this order
RECURSIVE SuffixWindows(_, _, _)
SuffixWindows(events, i, mh) ==
    LET start == FindAction(events, i)
    IN  IF start = 0 THEN <<>>
        ELSE <<prediction_states(SubSeq(events, start, Len(events)), mh)>>
             \o SuffixWindows(events, start + 1, mh)

\* the action of the first window of a sequence that the table holds
RECURSIVE FirstMatch(_, _, _)
FirstMatch(lk, windows, i) ==
    IF i > Len(windows) THEN None
    ELSE IF recall_states(lk, windows[i]) # None
         THEN recall_states(lk, windows[i])
         ELSE FirstMatch(lk, windows, i + 1)

\* C6 witness: the extended policy answered from the exact window although a
\* truncated window is in the table with another action.
C6_Witness ==
    /\ rpc = "done"
    /\ augmented
    /\ predicted # None
    /\ predicted = BaseAnswer
    /\ FirstMatch(self_lookup,
                  SuffixWindows(trim_tracker_by_max_history(tracker, max_history),
                                1, max_history), 1) \notin {None, predicted}

\* events of an Optional tracker
EventsOf(t) == IF t = NoTracker THEN <<>> ELSE t[1]

\* C7: the loop of the truncation search has run at most as many times as
\* the trimmed log has executed actions, every iteration that continues
\* leaves a strictly shorter log with one executed action less, the search
\* always ends, and it ends with None or with the table's action for the
\* window of a suffix of the log.
C7_SearchTerminates ==
    /\ [](rpc = "loop" =>
            iterations + CountActions(EventsOf(truncated_tracker))
                = CountActions(trimmed))
    /\ [][(rpc = "loop" /\ rpc' = "loop") =>
            /\ Len(EventsOf(truncated_tracker')) < Len(EventsOf(truncated_tracker))
            /\ CountActions(EventsOf(truncated_tracker'))
                  = CountActions(EventsOf(truncated_tracker)) - 1]_vars
    /\ [][(rpc = "loop" /\ rpc' = "result") =>
            \/ predicted' = None
            \/ \E k \in 1..Len(tracker) :
                  recall_states(self_lookup,
                      prediction_states(SubSeq(tracker, k, Len(tracker)),
                                        max_history)) = predicted']_vars
    /\ (rpc = "loop") ~> (rpc = "result")

\* C7 witness: a search has ended after three iterations.
C7_Witness ==
    /\ rpc = "result"
    /\ iterations = 3
    /\ CountActions(trimmed) = 3

\* C8: after a base-recall miss the search answers with the action of the
\* first window, in the order of the shortened logs, that is in the table,
\* and with None only when none is.
C8_FirstTruncatedMatch ==
    (augmented /\ rpc \in {"result", "done"} /\ BaseAnswer = None) =>
        predicted = FirstMatch(self_lookup,
                               SuffixWindows(trimmed, 1, max_history), 1)

\* C8 witness: the window of the log misses, the first truncated window
\* misses too and the second one is in the table.
C8_Witness ==
    /\ augmented
    /\ rpc = "done"
    /\ BaseAnswer = None
    /\ predicted # None
    /\ lookups = 2

C13_PredictionsReadOnly == [][self_lookup' = self_lookup]_vars

\* an extended recall that looked windows up in a non-empty table, missed
\* every time and ended without a prediction
C13_Witness ==
    /\ rpc = "done"
    /\ augmented
    /\ predicted = None
    /\ lookups >= 2
    /\ self_lookup # EmptyDict

\* C14: when the policy recalls an action, the probability it emits for
\* that action is 1.1 (110 hundredths), above every probability another
\* policy can emit.
C14_RecalledActionGetsOnePointOne ==
    (rpc = "done" /\ predicted # None) =>
        result[index_for_action(predicted)] = 110

\* the position of the n-th ActionExecuted event of a log
NthAction(events, n) ==
    CHOOSE i \in 1..Len(events) :
        /\ IsActionExecuted(events[i])
        /\ CountActions(SubSeq(events, 1, i)) = n

\* C16: in the truncation search the log tried in the n-th iteration is the
\* trimmed log from its n-th executed action on: the first tried log starts
\* at the first executed action, each following one at the next executed
\* action, none is skipped, and the search runs out of logs only after the
\* last executed action.
C16_StartsAtSuccessiveActions ==
    rpc = "loop" =>
        IF iterations < CountActions(trimmed)
        THEN /\ truncated_tracker =
                   <<SubSeq(trimmed, NthAction(trimmed, iterations + 1),
                            Len(trimmed))>>
             /\ IsActionExecuted(truncated_tracker[1][1])
        ELSE /\ truncated_tracker = NoTracker
             /\ iterations = CountActions(trimmed)

\* the search is about to try its third log, which starts at the third
\* executed action of the trimmed log
C16_Witness ==
    /\ rpc = "loop"
    /\ iterations = 2
    /\ truncated_tracker # NoTracker
    /\ Len(truncated_tracker[1]) < Len(trimmed)

\* C19: when the log handed to the truncation search is empty or holds no
\* ActionExecuted event, the search has no log to try: it runs no iteration,
\* looks nothing up in the table and ends with no prediction.
C19_NoActionNoSearch ==
    (CountActions(tracker) = 0 /\ falls_back(augmented, BaseAnswer)) =>
        /\ rpc = "loop" => truncated_tracker = NoTracker
        /\ rpc \in {"loop", "result", "done"} =>
              /\ iterations = 0
              /\ lookups = 0
              /\ predicted = None

\* a prediction for a log of slot events only, on a non-empty table, went
\* through the truncation search and ended without a prediction
C19_Witness ==
    /\ rpc = "done"
    /\ augmented
    /\ Len(tracker) > 0
    /\ CountActions(tracker) = 0
    /\ BaseAnswer = None
    /\ self_lookup # EmptyDict
    /\ predicted = None

====
